---- MODULE Spec2Model ----
(***************************************************************************)
(* Request lifecycle of the document-request server:                       *)
(*   src/src/models/Request.js              the Request schema and hook    *)
(*   src/src/controllers/requestController.js   the handlers               *)
(*   src/unnamed/part_001                   the request routes             *)
(*                                                                         *)
(* A stored document keeps the fields the handlers read or write.  The     *)
(* pass-through fields (correctionDetails, uploadedDocuments,              *)
(* expectedCompletionDate), the display names (performedByName, adminName) *)
(* and the sub-document timestamps are left out: no handler branches on    *)
(* them.  Strings built from a template are kept as the tuple of their     *)
(* parts, e.g. <<"Admin added a remark: ", remark>>.                       *)
(*                                                                         *)
(* Two specifications share the definitions:                               *)
(*   Spec      one request is served at a time (each handler is one step); *)
(*   SpecConc  handlers interleave at their await points: the findById     *)
(*             and the save of one handler are two steps.                  *)
(***************************************************************************)
EXTENDS Integers, Sequences, FiniteSets, Bags, TLC

VARIABLES requests,   \* the Request collection: requests[id] is the document with _id = id
          now,        \* the clock read by Date.now() / new Date()
          req,        \* the call being answered (route, principal, params, body)
          res,        \* the response to it
          inflight,   \* SpecConc: the bag of handlers suspended between findById and save
          appended    \* history: per request, the timeline entries pushed by completed saves

vars == <<requests, now, req, res, inflight, appended>>

----------------------------------------------------------------------------
(* Bounds *)

MaxReq == 2        \* documents created
MaxOps == 2        \* successful saves of existing documents, over all documents
MaxTime == 1       \* clock ticks
MaxInflight == 2   \* SpecConc: handlers suspended at the same time

----------------------------------------------------------------------------
(* Values *)

Null == "null"     \* null / undefined of a string or id valued field
NoDate == -1       \* null / undefined of a Date valued field
NoId == 0          \* no :id parameter

RequestTypeEnum ==
    {"degree_certificate", "provisional_certificate", "migration_certificate",
     "transcript", "marksheet", "name_correction", "dob_correction",
     "retotaling", "rechecking", "other"}

StatusEnum ==
    {"submitted", "under_review", "correction_required", "approved",
     "rejected", "in_processing", "ready", "completed"}

PriorityEnum == {"low", "medium", "high", "urgent"}

\* The principals the authentication layer attaches to a call (req.user).
Users ==
    {[id |-> "u1", role |-> "user"],
     [id |-> "u2", role |-> "user"],
     [id |-> "a1", role |-> "admin"]}

\* The principals that call the admin routes: u2 stands to these routes as
\* u1 does (neither is an admin), so it only reads.
AdminRouteCallers == {u \in Users : u.id # "u2"}

\* Request bodies and parameters the calls are drawn from.
CreateCalls ==
    {[user |-> "u1", requestType |-> "transcript", title |-> "t", description |-> "d", priority |-> Null],
     [user |-> "u1", requestType |-> "other", title |-> "t", description |-> "d", priority |-> "urgent"],
     [user |-> "a1", requestType |-> "transcript", title |-> "t", description |-> "d", priority |-> "urgent"],
     [user |-> "u1", requestType |-> "diploma", title |-> "t", description |-> "d", priority |-> Null],
     [user |-> "u1", requestType |-> "transcript", title |-> Null, description |-> "d", priority |-> Null],
     [user |-> "u1", requestType |-> "transcript", title |-> "t", description |-> Null, priority |-> Null],
     [user |-> "u1", requestType |-> "transcript", title |-> "t", description |-> "d", priority |-> "asap"]}
StatusBodies ==
    {[status |-> "rejected", message |-> ""],
     [status |-> "completed", message |-> Null],
     [status |-> "completed", message |-> "note"],
     [status |-> "archived", message |-> Null],
     [status |-> Null, message |-> Null]}
RemarkInputs == {Null, "r"}
ReasonInputs == {Null, "why"}
IdInputs == 1..MaxReq
\* req.query of GET /api/requests: the filter options of getAllRequests.
ListQueries ==
    {[status |-> Null, requestType |-> Null, priority |-> Null, search |-> Null],
     [status |-> "rejected", requestType |-> Null, priority |-> Null, search |-> Null],
     [status |-> Null, requestType |-> "transcript", priority |-> Null, search |-> Null],
     [status |-> Null, requestType |-> Null, priority |-> "urgent", search |-> Null],
     [status |-> "rejected", requestType |-> Null, priority |-> "urgent", search |-> Null],
     [status |-> Null, requestType |-> "transcript", priority |-> "urgent", search |-> Null],
     [status |-> Null, requestType |-> Null, priority |-> Null, search |-> "T"]}

\* JavaScript truthiness of a string valued input (null, undefined and ""
\* are falsy; they are all written Null here).
Truthy(v) == v # Null /\ v # ""

----------------------------------------------------------------------------
(* The schema: src/src/models/Request.js *)

SeedEvent ==
    [status |-> "submitted",
     message |-> <<"Request submitted successfully">>,
     performedBy |-> Null]

\* Request.create(fields): the document built from the given fields and the
\* schema defaults, before validation and the save hooks.
NewDocument(userId, requestType, title, description, priority) ==
    [userId |-> userId,
     requestType |-> requestType,
     title |-> title,
     description |-> description,
     status |-> "submitted",
     adminRemarks |-> << >>,
     timeline |-> << >>,
     priority |-> priority,
     rejectionReason |-> Null,
     createdAt |-> now,
     updatedAt |-> now,
     completedAt |-> NoDate]

\* timelineEventSchema: status and message are required strings.
ValidEvent(e) == Truthy(e.status) /\ e.message # << >>

\* Validate without the enum of status.
ValidateNoStatusEnum(doc) ==
    /\ Truthy(doc.userId)
    /\ Truthy(doc.requestType) /\ doc.requestType \in RequestTypeEnum
    /\ Truthy(doc.title)
    /\ Truthy(doc.description)
    /\ doc.priority = Null \/ doc.priority \in PriorityEnum
    /\ \A i \in 1..Len(doc.timeline) : ValidEvent(doc.timeline[i])

\* Schema validation run by save(): required paths and enums.  An enum
\* validator accepts an undefined value; "required" rejects it.
Validate(doc) ==
    /\ Truthy(doc.userId)
    /\ Truthy(doc.requestType) /\ doc.requestType \in RequestTypeEnum
    /\ Truthy(doc.title)
    /\ Truthy(doc.description)
    /\ doc.status = Null \/ doc.status \in StatusEnum
    /\ doc.priority = Null \/ doc.priority \in PriorityEnum
    /\ \A i \in 1..Len(doc.timeline) : ValidEvent(doc.timeline[i])

\* PreSave without the seed event.
PreSaveNoSeed(doc, isNew) == [doc EXCEPT !.updatedAt = now]

\* requestSchema.pre('save'): seeds the timeline of a new document and
\* refreshes updatedAt.
PreSave(doc, isNew) ==
    [doc EXCEPT !.timeline = IF isNew THEN Append(@, SeedEvent) ELSE @,
                !.updatedAt = now]

----------------------------------------------------------------------------
(* Mongoose persistence, as the handlers use it *)

\* Request.findById(id): the stored document or null.
Exists(id) == id \in DOMAIN requests

\* The elements local has after the ones it was loaded with: what push()
\* registered on the array.
Pushed(loadedSeq, localSeq) == SubSeq(localSeq, Len(loadedSeq) + 1, Len(localSeq))

\* SaveExisting writing the whole local document over the stored one.
SaveWhole(id, loaded, local) == local

\* The stored document after local.save() of a document read as `loaded`:
\* save() sends the modified paths only, a changed scalar path as $set and a
\* pushed array element as $push, and the store applies them to the document
\* it holds now.
SaveExisting(id, loaded, local) ==
    LET cur == requests[id]
        Path(curV, loadedV, localV) == IF localV # loadedV THEN localV ELSE curV
    IN  [cur EXCEPT
            !.status = Path(@, loaded.status, local.status),
            !.rejectionReason = Path(@, loaded.rejectionReason, local.rejectionReason),
            !.completedAt = Path(@, loaded.completedAt, local.completedAt),
            !.updatedAt = Path(@, loaded.updatedAt, local.updatedAt),
            !.adminRemarks = @ \o Pushed(loaded.adminRemarks, local.adminRemarks),
            !.timeline = @ \o Pushed(loaded.timeline, local.timeline)]

\* Successful saves of existing documents so far.
Ops == LET Sum[i \in 0..Len(appended)] ==
               IF i = 0 THEN 0 ELSE Sum[i - 1] + Len(appended[i])
       IN  Sum[Len(appended)]

\* Handlers that have read their document and not yet saved it.
Suspended == BagCardinality(inflight)

----------------------------------------------------------------------------
(* Calls and responses *)

NoUser == [id |-> Null, role |-> Null]

NoCall ==
    [op |-> "none", user |-> NoUser, id |-> NoId,
     requestType |-> Null, title |-> Null, description |-> Null,
     priority |-> Null, status |-> Null, message |-> Null,
     remark |-> Null, reason |-> Null, search |-> Null]

Call(op, user, id) == [NoCall EXCEPT !.op = op, !.user = user, !.id = id]

\* res.status(code).json({..., request}) or next(error); body is the
\* sequence of documents in the response.
Respond(r, code, body) ==
    /\ req' = r
    /\ res' = [code |-> code, body |-> body]

\* The error a failed save() hands to next(error).
ValidationError == "ValidationError"

\* authorize(...roles) of middleware/auth: passes the principals whose role
\* is listed, answers 403 to the others.
Authorize(user, roles) == user.role \in roles

Forbidden(r) ==
    /\ Respond(r, "403", << >>)
    /\ UNCHANGED <<requests, now, inflight, appended>>

----------------------------------------------------------------------------
(* The handlers: src/src/controllers/requestController.js *)

\* createRequest
CreateRequest(r) ==
    LET doc == NewDocument(r.user.id, r.requestType, r.title, r.description,
                           IF Truthy(r.priority) THEN r.priority ELSE "medium")
    IN  IF ~Validate(doc)
        THEN /\ Respond(r, ValidationError, << >>)
             /\ UNCHANGED <<requests, now, inflight, appended>>
        ELSE /\ Len(requests) < MaxReq
             /\ requests' = Append(requests, PreSave(doc, TRUE))
             /\ appended' = Append(appended, << >>)
             /\ Respond(r, "201", <<PreSave(doc, TRUE)>>)
             /\ UNCHANGED <<now, inflight>>

\* getRequestById with the ownership and role tests joined by "or".
GetRequestByIdOr(r) ==
    /\ IF ~Exists(r.id)
       THEN Respond(r, "404", << >>)
       ELSE IF requests[r.id].userId # r.user.id \/ r.user.role # "admin"
            THEN Respond(r, "403", << >>)
            ELSE Respond(r, "200", <<requests[r.id]>>)
    /\ UNCHANGED <<requests, now, inflight, appended>>

\* getRequestById
GetRequestById(r) ==
    /\ IF ~Exists(r.id)
       THEN Respond(r, "404", << >>)
       ELSE IF requests[r.id].userId # r.user.id /\ r.user.role # "admin"
            THEN Respond(r, "403", << >>)
            ELSE Respond(r, "200", <<requests[r.id]>>)
    /\ UNCHANGED <<requests, now, inflight, appended>>

\* StatusEvent keeping an empty message instead of the default one.
StatusEventKeepsEmpty(r) ==
    [status |-> r.status,
     message |-> IF r.message # Null THEN <<r.message>>
                 ELSE <<"Status updated to ", r.status>>,
     performedBy |-> r.user.id]

\* The timeline event updateRequestStatus pushes.
StatusEvent(r) ==
    [status |-> r.status,
     message |-> IF Truthy(r.message) THEN <<r.message>>
                 ELSE <<"Status updated to ", r.status>>,
     performedBy |-> r.user.id]

\* UpdateStatusDoc recording no event when the status does not change.
UpdateStatusDocSkipSame(doc, r) ==
    LET d == [doc EXCEPT !.status = r.status,
                         !.timeline = IF r.status = doc.status THEN @
                                      ELSE Append(@, StatusEvent(r))]
    IN  IF r.status = "completed" THEN [d EXCEPT !.completedAt = now] ELSE d

\* UpdateStatusDoc clearing completedAt when the new status is not completed.
UpdateStatusDocClearing(doc, r) ==
    [doc EXCEPT !.status = r.status,
                !.timeline = Append(@, StatusEvent(r)),
                !.completedAt = IF r.status = "completed" THEN now ELSE NoDate]

\* UpdateStatusDoc never setting completedAt.
UpdateStatusDocNoCompletedAt(doc, r) ==
    [doc EXCEPT !.status = r.status, !.timeline = Append(@, StatusEvent(r))]

\* UpdateStatusDoc clearing rejectionReason when the new status is not rejected.
UpdateStatusDocClearsReason(doc, r) ==
    LET d == [doc EXCEPT !.status = r.status,
                         !.timeline = Append(@, StatusEvent(r)),
                         !.rejectionReason = IF r.status = "rejected" THEN @ ELSE Null]
    IN  IF r.status = "completed" THEN [d EXCEPT !.completedAt = now] ELSE d

\* updateRequestStatus, lines 150-164: the changes made to the loaded document.
UpdateStatusDoc(doc, r) ==
    LET d == [doc EXCEPT !.status = r.status,
                         !.timeline = Append(@, StatusEvent(r))]
    IN  IF r.status = "completed" THEN [d EXCEPT !.completedAt = now] ELSE d

\* AddRemarkDoc recording the remark in the timeline only.
AddRemarkDocTimelineOnly(doc, r) ==
    [doc EXCEPT
        !.timeline = Append(@, [status |-> doc.status,
                                message |-> <<"Admin added a remark: ", r.remark>>,
                                performedBy |-> r.user.id])]

\* addRemark, lines 201-214.
AddRemarkDoc(doc, r) ==
    [doc EXCEPT
        !.adminRemarks = Append(@, [admin |-> r.user.id, remark |-> r.remark]),
        !.timeline = Append(@, [status |-> doc.status,
                                message |-> <<"Admin added a remark: ", r.remark>>,
                                performedBy |-> r.user.id])]

\* RejectDoc not storing the reason.
RejectDocNoReason(doc, r) ==
    [doc EXCEPT
        !.status = "rejected",
        !.timeline = Append(@, [status |-> "rejected",
                                message |-> <<"Request rejected: ", r.reason>>,
                                performedBy |-> r.user.id])]

\* RejectDoc clearing completedAt.
RejectDocClearsCompleted(doc, r) ==
    [doc EXCEPT
        !.status = "rejected",
        !.rejectionReason = r.reason,
        !.completedAt = NoDate,
        !.timeline = Append(@, [status |-> "rejected",
                                message |-> <<"Request rejected: ", r.reason>>,
                                performedBy |-> r.user.id])]

\* rejectRequest, lines 251-259.
RejectDoc(doc, r) ==
    [doc EXCEPT
        !.status = "rejected",
        !.rejectionReason = r.reason,
        !.timeline = Append(@, [status |-> "rejected",
                                message |-> <<"Request rejected: ", r.reason>>,
                                performedBy |-> r.user.id])]

\* The changes a mutating handler makes between its findById and its save.
Mutate(doc, r) ==
    CASE r.op = "updateStatus" -> UpdateStatusDoc(doc, r)
      [] r.op = "addRemark" -> AddRemarkDoc(doc, r)
      [] r.op = "reject" -> RejectDoc(doc, r)

\* SaveAndRespond writing the changed document although validation failed.
SaveAndRespondPartial(r, loaded) ==
    LET local == Mutate(loaded, r)
    IN  IF ~Validate(local)
        THEN /\ Respond(r, ValidationError, << >>)
             /\ requests' = [requests EXCEPT ![r.id] = local]
             /\ UNCHANGED <<now, appended>>
        ELSE /\ Ops < MaxOps
             /\ requests' = [requests EXCEPT
                    ![r.id] = SaveExisting(r.id, loaded, PreSave(local, FALSE))]
             /\ appended' = [appended EXCEPT
                    ![r.id] = @ \o Pushed(loaded.timeline, local.timeline)]
             /\ Respond(r, "200", <<PreSave(local, FALSE)>>)
             /\ UNCHANGED now

\* await request.save() of a handler that read `loaded`, and its response.
SaveAndRespond(r, loaded) ==
    LET local == Mutate(loaded, r)
    IN  IF ~Validate(local)
        THEN /\ Respond(r, ValidationError, << >>)
             /\ UNCHANGED <<requests, now, appended>>
        ELSE /\ Ops < MaxOps
             /\ requests' = [requests EXCEPT
                    ![r.id] = SaveExisting(r.id, loaded, PreSave(local, FALSE))]
             /\ appended' = [appended EXCEPT
                    ![r.id] = @ \o Pushed(loaded.timeline, local.timeline)]
             /\ Respond(r, "200", <<PreSave(local, FALSE)>>)
             /\ UNCHANGED now

\* InputMissing also refusing a status update of a completed or rejected request.
InputMissingTerminal(r) ==
    CASE r.op = "updateStatus" ->
             Exists(r.id) /\ requests[r.id].status \in {"completed", "rejected"}
      [] r.op = "addRemark" -> ~Truthy(r.remark)
      [] r.op = "reject" -> ~Truthy(r.reason)

\* The input check a handler makes before it reads the document.
InputMissing(r) ==
    CASE r.op = "updateStatus" -> FALSE
      [] r.op = "addRemark" -> ~Truthy(r.remark)
      [] r.op = "reject" -> ~Truthy(r.reason)

\* updateRequestStatus, addRemark and rejectRequest served without
\* interleaving: check, findById, change, save.
Mutating(r) ==
    IF InputMissing(r)
    THEN /\ Respond(r, "400", << >>)
         /\ UNCHANGED <<requests, now, inflight, appended>>
    ELSE IF ~Exists(r.id)
    THEN /\ Respond(r, "404", << >>)
         /\ UNCHANGED <<requests, now, inflight, appended>>
    ELSE /\ SaveAndRespond(r, requests[r.id])
         /\ UNCHANGED inflight

\* .sort({ createdAt: -1 }) of the documents with the ids in S: every order
\* of them with createdAt not increasing (the order among equal createdAt is
\* the store's choice).
SortedByCreatedAtDesc(S) ==
    {o \in [1..Cardinality(S) -> S] :
        /\ \A i, j \in 1..Cardinality(S) : i # j => o[i] # o[j]
        /\ \A i, j \in 1..Cardinality(S) :
              i < j => requests[o[i]].createdAt >= requests[o[j]].createdAt}

\* The documents with the ids of o, in that order.
Documents(o) == [i \in 1..Len(o) |-> requests[o[i]]]

\* { $regex: search, $options: 'i' } on a title or description.  Titles and
\* descriptions are single letters here, so the pattern matches when it is
\* that letter in either case, or the regular expression ".".
RegexMatchI(pattern, text) ==
    LET Lower(c) == CASE c = "T" -> "t" [] c = "D" -> "d" [] OTHER -> c
    IN  pattern = "." \/ Lower(pattern) = Lower(text)

\* MatchesQuery combining the status and priority filters with OR.
MatchesQueryOr(doc, r) ==
    /\ \/ Truthy(r.status) => doc.status = r.status
       \/ Truthy(r.priority) => doc.priority = r.priority
    /\ Truthy(r.requestType) => doc.requestType = r.requestType
    /\ Truthy(r.search) =>
          RegexMatchI(r.search, doc.title) \/ RegexMatchI(r.search, doc.description)

\* The query object getAllRequests builds from req.query, as a test on a
\* document.
MatchesQuery(doc, r) ==
    /\ Truthy(r.status) => doc.status = r.status
    /\ Truthy(r.requestType) => doc.requestType = r.requestType
    /\ Truthy(r.priority) => doc.priority = r.priority
    /\ Truthy(r.search) =>
          RegexMatchI(r.search, doc.title) \/ RegexMatchI(r.search, doc.description)

\* getMyRequests without the userId filter.
GetMyRequestsAll(r) ==
    /\ \E o \in SortedByCreatedAtDesc(DOMAIN requests) :
           Respond(r, "200", Documents(o))
    /\ UNCHANGED <<requests, now, inflight, appended>>

\* getMyRequests
GetMyRequests(r) ==
    /\ \E o \in SortedByCreatedAtDesc(
                   {id \in DOMAIN requests : requests[id].userId = r.user.id}) :
           Respond(r, "200", Documents(o))
    /\ UNCHANGED <<requests, now, inflight, appended>>

\* getAllRequests
GetAllRequests(r) ==
    /\ \E o \in SortedByCreatedAtDesc(
                   {id \in DOMAIN requests : MatchesQuery(requests[id], r)}) :
           Respond(r, "200", Documents(o))
    /\ UNCHANGED <<requests, now, inflight, appended>>

\* The aggregate giving a group, possibly empty, for every status of the enum.
GroupByStatusAll ==
    [s \in StatusEnum |->
        Cardinality({id \in DOMAIN requests : requests[id].status = s})]

\* Request.aggregate([{ $group: { _id: '$status', count: { $sum: 1 } } }]):
\* one group per status some document has, with the number of its documents.
GroupByStatus ==
    [s \in {requests[id].status : id \in DOMAIN requests} |->
        Cardinality({id \in DOMAIN requests : requests[id].status = s})]

\* Request.countDocuments()
CountDocuments == Len(requests)

\* formattedStats, from the result of the aggregate and of the count.
FormattedStats(stats, totalRequests) ==
    [total |-> totalRequests, byStatus |-> stats]

\* getRequestStats served without interleaving: the body of the response is
\* the one formattedStats object.
GetRequestStats(r) ==
    /\ Respond(r, "200", <<FormattedStats(GroupByStatus, CountDocuments)>>)
    /\ UNCHANGED <<requests, now, inflight, appended>>

----------------------------------------------------------------------------
(* The routes: src/unnamed/part_001 (routes/requestRoutes) *)

\* router.post('/', protect, createRequest)
PostRequest ==
    \E u \in Users, b \in CreateCalls :
        /\ u.id = b.user
        /\ CreateRequest([Call("create", u, NoId) EXCEPT
            !.requestType = b.requestType, !.title = b.title,
            !.description = b.description, !.priority = b.priority])

\* router.get('/:id', protect, getRequestById)
GetById ==
    \E u \in Users, id \in IdInputs : GetRequestById(Call("getById", u, id))

\* PatchStatus without authorize('admin').
PatchStatusOpen ==
    \E u \in AdminRouteCallers, id \in IdInputs, b \in StatusBodies :
        Mutating([Call("updateStatus", u, id) EXCEPT
                      !.status = b.status, !.message = b.message])

\* router.patch('/:id/status', protect, authorize('admin'), updateRequestStatus)
PatchStatus ==
    \E u \in AdminRouteCallers, id \in IdInputs, b \in StatusBodies :
        LET r == [Call("updateStatus", u, id) EXCEPT
                      !.status = b.status, !.message = b.message]
        IN  IF Authorize(u, {"admin"}) THEN Mutating(r) ELSE Forbidden(r)

\* router.post('/:id/remarks', protect, authorize('admin'), addRemark)
PostRemark ==
    \E u \in AdminRouteCallers, id \in IdInputs, t \in RemarkInputs :
        LET r == [Call("addRemark", u, id) EXCEPT !.remark = t]
        IN  IF Authorize(u, {"admin"}) THEN Mutating(r) ELSE Forbidden(r)

\* router.post('/:id/reject', protect, authorize('admin'), rejectRequest)
PostReject ==
    \E u \in AdminRouteCallers, id \in IdInputs, t \in ReasonInputs :
        LET r == [Call("reject", u, id) EXCEPT !.reason = t]
        IN  IF Authorize(u, {"admin"}) THEN Mutating(r) ELSE Forbidden(r)

\* router.get('/my-requests', protect, getMyRequests)
GetMine ==
    \E u \in Users : GetMyRequests(Call("listMine", u, NoId))

\* router.get('/', protect, authorize('admin'), getAllRequests)
GetAll ==
    \E u \in AdminRouteCallers, q \in ListQueries :
        LET r == [Call("listAll", u, NoId) EXCEPT
                      !.status = q.status, !.requestType = q.requestType,
                      !.priority = q.priority, !.search = q.search]
        IN  IF Authorize(u, {"admin"}) THEN GetAllRequests(r) ELSE Forbidden(r)

\* router.get('/stats/overview', protect, authorize('admin'), getRequestStats)
GetStats ==
    \E u \in AdminRouteCallers :
        LET r == Call("stats", u, NoId)
        IN  IF Authorize(u, {"admin"}) THEN GetRequestStats(r) ELSE Forbidden(r)

\* The clock advances between calls.
Tick ==
    /\ now < MaxTime
    /\ now' = now + 1
    /\ UNCHANGED <<requests, req, res, inflight, appended>>

----------------------------------------------------------------------------
(* Specification: one call at a time *)

Init ==
    /\ requests = << >>
    /\ now = 0
    /\ req = NoCall
    /\ res = [code |-> "none", body |-> << >>]
    /\ inflight = EmptyBag
    /\ appended = << >>

Next ==
    \/ PostRequest
    \/ GetById
    \/ PatchStatus
    \/ PostRemark
    \/ PostReject
    \/ Tick

Spec == Init /\ [][Next]_vars

----------------------------------------------------------------------------
(* Specification: handlers interleave at their awaits *)

\* A mutating handler up to `await Request.findById(...)`: it passed
\* authorize and its input check, found the document and holds what it read.
\* (A call answered 403, 400 or 404 returns before it holds a document: it is
\* a single step, the one Spec takes.)
Begin(r) ==
    /\ Authorize(r.user, {"admin"})
    /\ ~InputMissing(r)
    /\ Exists(r.id)
    /\ Suspended < MaxInflight
    /\ Ops + Suspended < MaxOps
    /\ inflight' = inflight (+) SetToBag({[req |-> r, loaded |-> requests[r.id]]})
    /\ UNCHANGED <<requests, now, req, res, appended>>

BeginStatus ==
    \E u \in AdminRouteCallers, id \in IdInputs, b \in StatusBodies :
        Begin([Call("updateStatus", u, id) EXCEPT
                   !.status = b.status, !.message = b.message])

BeginRemark ==
    \E u \in AdminRouteCallers, id \in IdInputs, t \in RemarkInputs :
        Begin([Call("addRemark", u, id) EXCEPT !.remark = t])

BeginReject ==
    \E u \in AdminRouteCallers, id \in IdInputs, t \in ReasonInputs :
        Begin([Call("reject", u, id) EXCEPT !.reason = t])

\* The rest of a suspended handler: its changes to what it read, the save
\* and the response.
Finish ==
    \E h \in BagToSet(inflight) :
        /\ inflight' = inflight (-) SetToBag({h})
        /\ SaveAndRespond(h.req, h.loaded)

NextConc ==
    \/ PostRequest
    \/ BeginStatus
    \/ BeginRemark
    \/ BeginReject
    \/ Finish
    \/ Tick

SpecConc == Init /\ [][NextConc]_vars

----------------------------------------------------------------------------
(* Specification: one call at a time, the listing and statistics routes *)

\* The store is filled by createRequest and updateRequestStatus and read by
\* the three query routes.
NextQuery ==
    \/ PostRequest
    \/ PatchStatus
    \/ GetMine
    \/ GetAll
    \/ GetStats
    \/ Tick

SpecQuery == Init /\ [][NextQuery]_vars

----------------------------------------------------------------------------
(* Specification: one call at a time, the five admin only routes *)

\* All calls fall within one reading of the clock.
NextAccess ==
    \/ PostRequest
    \/ PatchStatus
    \/ PostRemark
    \/ PostReject
    \/ GetAll
    \/ GetStats

SpecAccess == Init /\ [][NextAccess]_vars

----------------------------------------------------------------------------
(* Specification: one call at a time, status updates to every status *)

\* PATCH /:id/status called by an admin with each value of the enumeration.
PatchAnyStatus ==
    \E u \in {a \in Users : a.role = "admin"}, id \in IdInputs, st \in StatusEnum :
        LET r == [Call("updateStatus", u, id) EXCEPT !.status = st]
        IN  IF Authorize(u, {"admin"}) THEN Mutating(r) ELSE Forbidden(r)

NextLifecycle ==
    \/ PostRequest
    \/ PatchAnyStatus
    \/ Tick

SpecLifecycle == Init /\ [][NextLifecycle]_vars

----------------------------------------------------------------------------
(* Specification: getRequestStats interleaving at its awaits *)

\* getRequestStats up to `await Request.aggregate(...)`: the handler holds
\* the groups it read.
StatsGroup ==
    \E u \in {a \in Users : a.role = "admin"} :
        /\ Suspended < 1
        /\ inflight' = inflight (+)
               SetToBag({[req |-> Call("stats", u, NoId), loaded |-> GroupByStatus]})
        /\ UNCHANGED <<requests, now, req, res, appended>>

\* The rest of getRequestStats: `await Request.countDocuments()`, the
\* formatting and the response.
StatsCount ==
    \E h \in BagToSet(inflight) :
        /\ h.req.op = "stats"
        /\ inflight' = inflight (-) SetToBag({h})
        /\ Respond(h.req, "200", <<FormattedStats(h.loaded, CountDocuments)>>)
        /\ UNCHANGED <<requests, now, appended>>

NextStats ==
    \/ PostRequest
    \/ PatchStatus
    \/ StatsGroup
    \/ StatsCount

SpecStats == Init /\ [][NextStats]_vars

----------------------------------------------------------------------------
(* Properties *)

IsPrefix(a, b) == Len(a) <= Len(b) /\ SubSeq(b, 1, Len(a)) = a

Last(q) == q[Len(q)]

\* A step of Spec that serves a call (Tick is the only step that moves the clock).
CallStep == now' = now

\* A step of Spec that serves the call `op` and answers 200.
Did(op) == CallStep /\ req'.op = op /\ res'.code = "200"

MutatingOps == {"updateStatus", "addRemark", "reject"}

\* C1: a create call with a recognized requestType, a title, a description
\* and an absent or recognized priority is answered 201, and the document a
\* 201 stored has status submitted and a timeline of exactly one entry:
\* status submitted, message "Request submitted successfully", performedBy null.
C1_CreateSeedsTimeline ==
    req.op = "create" =>
        /\ ( /\ req.requestType \in RequestTypeEnum
             /\ Truthy(req.title) /\ Truthy(req.description)
             /\ (req.priority = Null \/ req.priority \in PriorityEnum) )
           => res.code = "201"
        /\ res.code = "201" =>
            /\ Len(requests) >= 1
            /\ Last(requests).userId = req.user.id
            /\ Last(requests).status = "submitted"
            /\ Last(requests).timeline =
                   << [status |-> "submitted",
                       message |-> <<"Request submitted successfully">>,
                       performedBy |-> Null] >>
            /\ res.body = <<Last(requests)>>

C1_Witness ==
    /\ req.op = "create" /\ res.code = "201"
    /\ Len(requests) = 2
    /\ Len(requests[2].timeline) = 1

\* C2: every step keeps each stored timeline and adminRemarks as a prefix of
\* the new one, and a successful updateStatus, addRemark or reject makes the
\* timeline of its request exactly one entry longer (also when updateStatus
\* gives the status the request already has) and changes no other request's.
C2_AppendOnly ==
    [][ /\ \A id \in DOMAIN requests :
              /\ id \in DOMAIN requests'
              /\ IsPrefix(requests[id].timeline, requests'[id].timeline)
              /\ IsPrefix(requests[id].adminRemarks, requests'[id].adminRemarks)
        /\ (\E op \in MutatingOps : Did(op)) =>
              /\ req'.id \in DOMAIN requests
              /\ Len(requests'[req'.id].timeline) = Len(requests[req'.id].timeline) + 1
              /\ \A id \in DOMAIN requests \ {req'.id} :
                    /\ requests'[id].timeline = requests[id].timeline
                    /\ requests'[id].adminRemarks = requests[id].adminRemarks
      ]_vars

C2_Witness ==
    /\ req.op = "updateStatus" /\ res.code = "200" /\ req.status = "rejected"
    /\ Exists(req.id)
    /\ Len(requests[req.id].timeline) = 3
    /\ requests[req.id].timeline[2].status = "rejected"
    /\ requests[req.id].timeline[3].status = "rejected"

\* C3: with handlers interleaving between their findById and their save, the
\* stored timeline of every request is the seed entry followed by the entry of
\* every save that completed, in the order the saves completed: none is lost.
C3_NoLostAppend ==
    /\ Len(appended) = Len(requests)
    /\ \A id \in DOMAIN requests :
          requests[id].timeline = <<SeedEvent>> \o appended[id]

\* Two saves of one request completed, and the second one's handler had read
\* the document before the first one's save (its own copy is one entry short).
C3_Witness ==
    /\ Suspended = 0
    /\ res.code = "200" /\ req.op \in MutatingOps
    /\ Exists(req.id)
    /\ Len(requests[req.id].timeline) = 3
    /\ Len(res.body[1].timeline) = 2

\* C4: a successful addRemark is made by an admin, leaves the status as it
\* was, appends exactly the entry {admin: caller.id, remark} to adminRemarks
\* and exactly one timeline entry with that status, the message
\* "Admin added a remark: {remark}" and performedBy = caller.id.
C4_AddRemarkEffect ==
    [][ Did("addRemark") =>
          /\ req'.user.role = "admin"
          /\ req'.id \in DOMAIN requests
          /\ requests'[req'.id].status = requests[req'.id].status
          /\ requests'[req'.id].adminRemarks =
                 Append(requests[req'.id].adminRemarks,
                        [admin |-> req'.user.id, remark |-> req'.remark])
          /\ requests'[req'.id].timeline =
                 Append(requests[req'.id].timeline,
                        [status |-> requests[req'.id].status,
                         message |-> <<"Admin added a remark: ", req'.remark>>,
                         performedBy |-> req'.user.id])
      ]_vars

C4_Witness ==
    /\ req.op = "addRemark" /\ res.code = "200"
    /\ Exists(req.id)
    /\ requests[req.id].status = "completed"
    /\ Len(requests[req.id].adminRemarks) = 1
    /\ Last(requests[req.id].timeline).status = "completed"

\* C5: reject by an admin of an existing request with a non-empty reason is
\* answered 200 whatever the status was, and a getById of that request by an
\* admin right after it returns it with status rejected and rejectionReason
\* equal to the reason given.
C5_RejectThenGet ==
    [][ /\ ( /\ CallStep /\ req'.op = "reject"
             /\ req'.user.role = "admin" /\ Truthy(req'.reason)
             /\ req'.id \in DOMAIN requests )
           => /\ res'.code = "200"
              /\ requests'[req'.id].status = "rejected"
              /\ requests'[req'.id].rejectionReason = req'.reason
        /\ ( /\ req.op = "reject" /\ res.code = "200"
             /\ CallStep /\ req'.op = "getById"
             /\ req'.id = req.id /\ req'.user.role = "admin" )
           => /\ res'.code = "200"
              /\ Len(res'.body) = 1
              /\ res'.body[1].status = "rejected"
              /\ res'.body[1].rejectionReason = req.reason
      ]_vars

C5_Witness ==
    /\ req.op = "getById" /\ req.user.role = "admin" /\ res.code = "200"
    /\ res.body[1].status = "rejected"
    /\ res.body[1].rejectionReason = "why"
    /\ Len(res.body[1].timeline) = 3
    /\ res.body[1].timeline[2].status = "completed"
    /\ res.body[1].timeline[3].message = <<"Request rejected: ", "why">>

\* C6: a successful updateStatus to completed sets completedAt of its request
\* to the time of the call (non-null); a successful updateStatus to another
\* status, addRemark or reject leaves completedAt of every request unchanged.
C6_CompletedAtFrame ==
    [][ /\ (Did("updateStatus") /\ req'.status = "completed") =>
              /\ requests'[req'.id].completedAt # NoDate
              /\ requests'[req'.id].completedAt = now
        /\ ( \/ Did("updateStatus") /\ req'.status # "completed"
             \/ Did("addRemark")
             \/ Did("reject") ) =>
              \A id \in DOMAIN requests :
                  requests'[id].completedAt = requests[id].completedAt
      ]_vars

C6_Witness ==
    /\ req.op = "updateStatus" /\ req.status = "rejected" /\ res.code = "200"
    /\ Exists(req.id)
    /\ requests[req.id].status = "rejected"
    /\ requests[req.id].completedAt # NoDate

\* C7 as stated: once completedAt is non-null, no step changes it.
C7_SetOnce ==
    [][ \A id \in DOMAIN requests :
            requests[id].completedAt # NoDate =>
                requests'[id].completedAt = requests[id].completedAt
      ]_vars

\* C7 amended: once completedAt is non-null it stays non-null, and the only
\* step that changes it is a successful updateStatus of that request to
\* completed, which sets it to the time of that call.
C7_NeverClearedResetOnlyByCompleted ==
    [][ \A id \in DOMAIN requests :
            requests[id].completedAt # NoDate =>
                /\ requests'[id].completedAt # NoDate
                /\ requests'[id].completedAt # requests[id].completedAt =>
                      /\ Did("updateStatus")
                      /\ req'.status = "completed"
                      /\ req'.id = id
                      /\ requests'[id].completedAt = now
      ]_vars

C7_Witness ==
    /\ req.op = "updateStatus" /\ req.status = "completed" /\ res.code = "200"
    /\ Exists(req.id)
    /\ Len(requests[req.id].timeline) = 3
    /\ requests[req.id].timeline[2].status = "completed"
    /\ requests[req.id].timeline[3].status = "completed"
    /\ requests[req.id].completedAt = MaxTime

\* C8: in every state completedAt of a request is non-null exactly when its
\* status has been completed at some point (its timeline holds an entry with
\* status completed), and the only step that changes a completedAt is a
\* successful updateStatus of that request to completed.
C8_CompletedAtIffCompletedOnce ==
    /\ [](\A id \in DOMAIN requests :
              requests[id].completedAt # NoDate
                  <=> \E i \in 1..Len(requests[id].timeline) :
                          requests[id].timeline[i].status = "completed")
    /\ [][ \A id \in DOMAIN requests :
               requests'[id].completedAt # requests[id].completedAt =>
                   Did("updateStatus") /\ req'.status = "completed" /\ req'.id = id
         ]_vars

C8_Witness ==
    \E id \in DOMAIN requests :
        /\ requests[id].completedAt # NoDate
        /\ requests[id].status = "rejected"
        /\ requests[id].rejectionReason = Null

\* The timeline event of a reject.
IsRejectEvent(e) == e.message[1] = "Request rejected: "

\* C9: in every state rejectionReason of a request is set exactly when a
\* reject has been saved on it (its timeline holds a reject event), and it is
\* then the reason of the latest one: updateStatus to rejected does not set
\* it and no later updateStatus or addRemark clears it.
C9_RejectionReasonIffRejected ==
    \A id \in DOMAIN requests :
        LET t == requests[id].timeline
            R == {i \in 1..Len(t) : IsRejectEvent(t[i])}
        IN  /\ requests[id].rejectionReason # Null <=> R # {}
            /\ R # {} =>
                  \E i \in R :
                      /\ \A j \in R : j <= i
                      /\ t[i].message = <<"Request rejected: ", requests[id].rejectionReason>>

C9_Witness ==
    \E id \in DOMAIN requests :
        /\ requests[id].rejectionReason = "why"
        /\ requests[id].status = "completed"
        /\ Len(requests[id].timeline) = 3

\* C10: getById of a stored request is answered 403 to every caller who is
\* neither an admin nor its owner and 200 with the request to its owner and
\* to every admin; getById of an id that is not stored is answered 404 to
\* every caller.
C10_GetByIdAccess ==
    req.op = "getById" =>
        IF ~Exists(req.id)
        THEN res.code = "404"
        ELSE IF req.user.role = "admin" \/ req.user.id = requests[req.id].userId
        THEN res.code = "200" /\ res.body = <<requests[req.id]>>
        ELSE res.code = "403" /\ res.body = << >>

C10_Witness ==
    /\ req.op = "getById" /\ res.code = "403"
    /\ req.user.id = "u2"
    /\ Exists(req.id)
    /\ requests[req.id].userId = "u1"

AdminOnlyOps == {"updateStatus", "addRemark", "reject", "listAll", "stats"}

\* C11: a call of updateStatus, addRemark, reject, listAll or stats by a
\* principal whose role is not admin is answered 403 with no document,
\* whatever its other arguments are, and changes no stored request.
C11_NonAdminForbidden ==
    [][ (req'.op \in AdminOnlyOps /\ req'.user.role # "admin") =>
            /\ res'.code = "403"
            /\ res'.body = << >>
            /\ requests' = requests
      ]_vars

C11_Witness ==
    /\ req.op = "updateStatus" /\ req.user.role = "user"
    /\ res.code = "403"
    /\ req.status = "archived"
    /\ Len(requests) = 1
    /\ ~Exists(req.id)

\* C12: the stored status of every request is one of the eight values of the
\* enumeration, and an updateStatus by an admin of a stored request with a
\* status outside the enumeration, or with none, ends in a ValidationError
\* and leaves the store as it was.
C12_InvalidStatusRejected ==
    /\ [](\A id \in DOMAIN requests : requests[id].status \in StatusEnum)
    /\ [][ ( /\ CallStep /\ req'.op = "updateStatus"
             /\ req'.user.role = "admin"
             /\ req'.id \in DOMAIN requests
             /\ req'.status \notin StatusEnum )
           => /\ res'.code = ValidationError
              /\ res'.body = << >>
              /\ requests' = requests
         ]_vars

C12_Witness ==
    /\ req.op = "updateStatus" /\ req.user.role = "admin"
    /\ req.status = Null
    /\ res.code = ValidationError
    /\ Exists(req.id)
    /\ requests[req.id].status = "completed"

\* C13: an updateStatus by an admin of a stored request to any of the eight
\* statuses is answered 200 and stores that status, whatever the status of
\* the request was (completed and rejected included).
C13_AnyTransitionAllowed ==
    [][ ( /\ CallStep /\ req'.op = "updateStatus"
          /\ req'.user.role = "admin"
          /\ req'.id \in DOMAIN requests
          /\ req'.status \in StatusEnum )
        => /\ res'.code = "200"
           /\ requests'[req'.id].status = req'.status
      ]_vars

C13_Witness ==
    /\ req.op = "updateStatus" /\ res.code = "200" /\ req.status = "submitted"
    /\ Exists(req.id)
    /\ Len(requests[req.id].timeline) = 3
    /\ requests[req.id].timeline[2].status = "completed"
    /\ requests[req.id].status = "submitted"

\* body lists exactly the stored requests with the ids of S, each once, the
\* latest createdAt first.
IsListing(body, S) ==
    /\ Len(body) = Cardinality(S)
    /\ \E o \in [1..Len(body) -> S] :
          /\ \A i, j \in 1..Len(body) : i # j => o[i] # o[j]
          /\ \A i \in 1..Len(body) : body[i] = requests[o[i]]
    /\ \A i, j \in 1..Len(body) : i < j => body[i].createdAt >= body[j].createdAt

\* C14: listAll by an admin returns exactly the stored requests whose
\* current status, requestType and priority equal every one of these options
\* that is set (an unset option constrains nothing, a search only narrows
\* the result further), ordered by createdAt descending.
C14_ListAllFilters ==
    (req.op = "listAll" /\ req.user.role = "admin") =>
        LET Listed == {id \in DOMAIN requests :
                          /\ req.status # Null => requests[id].status = req.status
                          /\ req.requestType # Null =>
                                 requests[id].requestType = req.requestType
                          /\ req.priority # Null =>
                                 requests[id].priority = req.priority}
        IN  /\ res.code = "200"
            /\ req.search = Null => IsListing(res.body, Listed)
            /\ req.search # Null =>
                   \E S \in SUBSET Listed : IsListing(res.body, S)

C14_Witness ==
    /\ req.op = "listAll" /\ req.status = "rejected" /\ req.priority = Null
    /\ res.code = "200"
    /\ Len(requests) = 2
    /\ requests[1].status = "completed"
    /\ requests[2].status = "rejected"
    /\ res.body = <<requests[2]>>

\* C15: stats returns total equal to the number of stored requests and a
\* byStatus map whose keys are exactly the statuses some stored request has,
\* each with the number of requests in that status, which is never zero.
C15_StatsCounts ==
    (req.op = "stats" /\ req.user.role = "admin") =>
        /\ res.code = "200"
        /\ res.body[1].total = Len(requests)
        /\ DOMAIN res.body[1].byStatus =
               {requests[id].status : id \in DOMAIN requests}
        /\ \A s \in DOMAIN res.body[1].byStatus :
               /\ res.body[1].byStatus[s] =
                      Cardinality({id \in DOMAIN requests : requests[id].status = s})
               /\ res.body[1].byStatus[s] > 0

C15_Witness ==
    /\ req.op = "stats" /\ res.code = "200"
    /\ res.body[1].total = 2
    /\ DOMAIN res.body[1].byStatus = {"submitted", "completed"}
    /\ res.body[1].byStatus["submitted"] = 1
    /\ res.body[1].byStatus["completed"] = 1

\* C16: listMine is always answered 200 with exactly the stored requests
\* whose userId is the caller's id (none of another user), ordered by
\* createdAt descending; the sequence is empty when the caller owns none.
C16_ListMineOwnOnly ==
    req.op = "listMine" =>
        /\ res.code = "200"
        /\ IsListing(res.body,
                     {id \in DOMAIN requests : requests[id].userId = req.user.id})

C16_Witness ==
    /\ req.op = "listMine" /\ req.user.id = "u1"
    /\ res.code = "200"
    /\ Len(requests) = 2
    /\ requests[1].userId = "a1"
    /\ requests[2].userId = "u1"
    /\ res.body = <<requests[2]>>

FailureCodes == {"400", "403", "404", ValidationError}

\* C17: a call that is not answered 200 or 201 is answered with one of the
\* failures 400, 403, 404 or ValidationError, carries no document, and
\* leaves every stored request as it was and creates none.
C17_FailureChangesNothing ==
    [][ (CallStep /\ res'.code \notin {"200", "201"}) =>
            /\ res'.code \in FailureCodes
            /\ res'.body = << >>
            /\ requests' = requests
      ]_vars

C17_Witness ==
    /\ req.op = "addRemark" /\ req.user.role = "admin"
    /\ req.remark = Null
    /\ res.code = "400"
    /\ Exists(req.id)
    /\ Len(requests[req.id].timeline) = 2

\* C18: an updateStatus answered 200 stores the given status and appends
\* exactly one timeline entry with that status, performedBy the caller and
\* the given message, or "Status updated to {status}" when the message is
\* absent or empty.
C18_UpdateStatusEffect ==
    [][ Did("updateStatus") =>
            /\ requests'[req'.id].status = req'.status
            /\ requests'[req'.id].timeline =
                   Append(requests[req'.id].timeline,
                          [status |-> req'.status,
                           message |-> IF req'.message \in {Null, ""}
                                       THEN <<"Status updated to ", req'.status>>
                                       ELSE <<req'.message>>,
                           performedBy |-> req'.user.id])
      ]_vars

C18_Witness ==
    /\ req.op = "updateStatus" /\ res.code = "200"
    /\ req.message = ""
    /\ Exists(req.id)
    /\ Last(requests[req.id].timeline).message = <<"Status updated to ", "rejected">>
    /\ Last(requests[req.id].timeline).performedBy = "a1"

\* C19: in every state, calls interleaving included, the status of the last
\* timeline entry of each stored request is the request's current status.
C19_LastEntryIsCurrentStatus ==
    \A id \in DOMAIN requests :
        Last(requests[id].timeline).status = requests[id].status

RECURSIVE SumCounts(_)
\* The sum of the counts of a byStatus map.
SumCounts(f) ==
    IF DOMAIN f = {} THEN 0
    ELSE LET s == CHOOSE x \in DOMAIN f : TRUE
         IN  f[s] + SumCounts([t \in DOMAIN f \ {s} |-> f[t]])

\* C20: the total of a stats response equals the sum of the counts of its
\* byStatus map, also when another call is served between the grouping
\* query and the counting query.
C20_TotalIsSumOfCounts ==
    (req.op = "stats" /\ res.code = "200") =>
        res.body[1].total = SumCounts(res.body[1].byStatus)

====
